---- MODULE Spec2Model ----
(***************************************************************************)
(* A model of the candidate-ranking core of trader-copilot:                *)
(*   - the Symbol Resolver      (tools/dividend_data.py, _try_fix_symbol)  *)
(*   - the Response Extractor   (_parse_gemini_dividend_response)          *)
(*   - the three scanners       (scanner_agent.py)                         *)
(*   - the dividend scan        (dividend_agent.py)                        *)
(* Strings are sequences of one-character strings.  Prices, ratios and     *)
(* scores are integers in a fixed unit (named where they are used).        *)
(***************************************************************************)
EXTENDS Integers, Sequences, FiniteSets, TLC

VARIABLES
    \* ---- _try_fix_symbol
    fix_pc,          \* "idle" | "start" | "loop" | "done"
    raw_symbol,      \* the argument
    fix_candidates,  \* the list built by lines 44-55
    fix_i,           \* position of the for loop over fix_candidates
    fix_seen,        \* the set seen
    fix_calls,       \* history: the _validate_symbol calls made, in order
    fix_result,      \* the returned value (None or a symbol)
    \* ---- _parse_gemini_dividend_response
    ext_pc,          \* "idle" | "start" | "items" | "fixing" | "done" | "raised"
    text,            \* the argument text, as a sequence of tokens
    today,           \* the argument today, a date <<year, month, day>>
    ext_span,        \* history: what re.search matched (NoSpan when nothing)
    ext_kinds,       \* data, the list json.loads returned: which elements are dicts
    ext_data,        \* the elements of data the loop has read so far
    ext_i,           \* position of the for loop over data
    ext_candidates,  \* the list candidates
    ext_log,         \* history: what became of each item of data, in order
    ext_result,      \* the returned list
    \* ---- scan_watchlist_breakouts, scan_announcement_momentum, scan_oversold_bounce
    scan_pc,         \* "idle" | "loop" | "done"
    scanner,         \* which scanner runs: "breakout" | "momentum" | "oversold"
    symbols,         \* the list symbols
    rsi_max,         \* argument of scan_oversold_bounce
    require_below_50dma, \* argument of scan_oversold_bounce
    scan_i,          \* position of the for loop over symbols
    scanned,         \* the list scanned
    errors,          \* the list errors
    scan_candidates, \* the list candidates
    scan_log,        \* history: what the collaborators answered for each symbol
    scan_result,     \* the returned dict
    \* ---- scan_dividend_opportunities
    div_pc,          \* "start" | "loop" | "done"
    search_result,   \* what search_upcoming_dividends returned
    min_days_to_ex,  \* the argument
    filtered,        \* the list filtered
    div_i,           \* position of the for loop over filtered
    opportunities,   \* the list opportunities
    skipped,         \* the list skipped
    div_log,         \* history: the collaborators called for each candidate, and their answers
    div_result,      \* the returned dict
    \* ---- analyze_dividend_stock
    ana_pc,          \* "idle" | "start" | "done"
    ana_symbol,      \* the argument symbol
    analysis         \* the returned dict

fixVars == <<fix_pc, raw_symbol, fix_candidates, fix_i, fix_seen, fix_calls, fix_result>>

scanVars == <<scan_pc, scanner, symbols, rsi_max, require_below_50dma, scan_i, scanned,
              errors, scan_candidates, scan_log, scan_result>>

divVars == <<div_pc, search_result, min_days_to_ex, filtered, div_i, opportunities, skipped,
             div_log, div_result>>

anaVars == <<ana_pc, ana_symbol, analysis>>

extVars == <<ext_pc, text, today, ext_span, ext_kinds, ext_data, ext_i, ext_candidates, ext_log, ext_result>>

----------------------------------------------------------------------------
(* Bounds *)

\* Every string over FuzzChars of at most this length is a resolver input.
MaxRawLen == 2

\* Every token sequence of at most this length is an extractor input.
MaxTextLen == 4

\* The scanners run on at most this many symbols.
MaxSymbols == 2

\* The news collaborator returns at most this many articles.
MaxArticles == 1

\* The dividend search discovers at most this many candidates.
MaxCandidates == 2

----------------------------------------------------------------------------
(* Python values and string operations *)

\* Python's None, where a string (a sequence of characters) is expected.
None == <<"None">>

Min(a, b) == IF a <= b THEN a ELSE b

Max(a, b) == IF a >= b THEN a ELSE b

Abs(a) == IF a >= 0 THEN a ELSE 0 - a

\* str.upper(), on the letters the inputs use.
UpperChar(c) ==
    CASE c = "a" -> "A" [] c = "b" -> "B" [] c = "c" -> "C" [] c = "d" -> "D"
      [] c = "l" -> "L" [] c = "n" -> "N" [] c = "s" -> "S" [] c = "t" -> "T"
      [] OTHER -> c

Upper(s) == [i \in 1..Len(s) |-> UpperChar(s[i])]

\* s[:n]
Take(s, n) == SubSeq(s, 1, Min(n, Len(s)))

\* s[n:] (n characters dropped from the front)
Drop(s, n) == SubSeq(s, Min(n, Len(s)) + 1, Len(s))

\* s[:-n], n > 0
DropLast(s, n) == SubSeq(s, 1, Max(Len(s) - n, 0))

StartsWith(s, p) == Len(s) >= Len(p) /\ SubSeq(s, 1, Len(p)) = p

EndsWith(s, p) == Len(s) >= Len(p) /\ SubSeq(s, Len(s) - Len(p) + 1, Len(s)) = p

\* s.replace(p, ""): the non-overlapping occurrences of p, left to right.
RECURSIVE RemoveAll(_, _)
RemoveAll(s, p) ==
    IF s = <<>> THEN <<>>
    ELSE IF StartsWith(s, p) THEN RemoveAll(Drop(s, Len(p)), p)
    ELSE <<Head(s)>> \o RemoveAll(Tail(s), p)

IsSpace(c) == c = " "

RECURSIVE LStrip(_)
LStrip(s) == IF s # <<>> /\ IsSpace(Head(s)) THEN LStrip(Tail(s)) ELSE s

RECURSIVE RStrip(_)
RStrip(s) == IF s # <<>> /\ IsSpace(s[Len(s)]) THEN RStrip(DropLast(s, 1)) ELSE s

\* str.strip()
Strip(s) == RStrip(LStrip(s))

DotNS == <<".", "N", "S">>

LTD == <<"L", "T", "D">>

LIMITED == <<"L", "I", "M", "I", "T", "E", "D">>

IND == <<"I", "N", "D">>

----------------------------------------------------------------------------
(* _validate_symbol: the outcome of the quote source for one symbol *)

\* "price": info holds a price; "noprice": it holds none; "raise": yfinance raised.
QuoteOutcomes == {"price", "noprice", "raise"}

\* lines 26-30 without the except clause's False: an exception counts as valid.
ValidateSymbol_Unless(outcome) == outcome # "noprice"

\* lines 26-32: True only when a price came back; an exception gives False.
ValidateSymbol(outcome) ==
    CASE outcome = "price" -> TRUE
      [] outcome = "noprice" -> FALSE
      [] outcome = "raise" -> FALSE

----------------------------------------------------------------------------
(* _try_fix_symbol *)

\* line 42
FixBase(raw) == RemoveAll(Upper(raw), DotNS)

\* lines 44-55: the candidate list, before stripping and de-duplication.
FixCandidates(raw) ==
    LET base == FixBase(raw)
    IN  <<base,
          SelectSeq(base, LAMBDA c : c # " "),
          SelectSeq(base, LAMBDA c : c # "-"),
          Take(base, 10)>>
        \o (IF EndsWith(base, LTD) THEN <<DropLast(base, 3)>> ELSE <<>>)
        \o (IF EndsWith(base, LIMITED) THEN <<DropLast(base, 7)>> ELSE <<>>)
        \o (IF ~EndsWith(base, IND) /\ Len(base) <= 15 THEN <<base \o IND>> ELSE <<>>)

\* lines 42-57: the list is built and the loop entered.
TryFixStart ==
    /\ fix_pc = "start"
    /\ fix_candidates' = FixCandidates(raw_symbol)
    /\ fix_i' = 1
    /\ fix_seen' = {}
    /\ fix_calls' = <<>>
    /\ fix_result' = None
    /\ fix_pc' = "loop"
    /\ UNCHANGED raw_symbol

\* The skip of lines 59-62 without the set seen.
FixSkips_NoSeen(c, seen) == c = <<>>

\* lines 59-62: the candidate is skipped (empty or already seen).
FixSkips(c, seen) == c = <<>> \/ c \in seen

\* lines 58-65: one iteration of the loop, given the quote source's outcome.
FixIteration(outcome) ==
    LET c == Strip(fix_candidates[fix_i])
        sym == c \o DotNS
    IN  IF FixSkips(c, fix_seen)
        THEN /\ fix_i' = fix_i + 1
             /\ UNCHANGED <<fix_seen, fix_calls, fix_result, fix_pc>>
        ELSE /\ fix_seen' = fix_seen \cup {c}
             /\ fix_calls' = Append(fix_calls, [sym |-> sym, outcome |-> outcome])
             /\ IF ValidateSymbol(outcome)
                THEN /\ fix_result' = sym
                     /\ fix_pc' = "done"
                     /\ UNCHANGED fix_i
                ELSE /\ fix_i' = fix_i + 1
                     /\ UNCHANGED <<fix_result, fix_pc>>

TryFixStep ==
    /\ fix_pc = "loop"
    /\ fix_i <= Len(fix_candidates)
    /\ \E outcome \in QuoteOutcomes : FixIteration(outcome)
    /\ UNCHANGED <<raw_symbol, fix_candidates>>

\* line 67: the list is exhausted.
TryFixExhausted ==
    /\ fix_pc = "loop"
    /\ fix_i > Len(fix_candidates)
    /\ fix_result' = None
    /\ fix_pc' = "done"
    /\ UNCHANGED <<raw_symbol, fix_candidates, fix_i, fix_seen, fix_calls>>

----------------------------------------------------------------------------
(* The resolver on its own *)

TATA_MOTORS_LTD == <<"T","A","T","A"," ","M","O","T","O","R","S"," ","L","T","D">>

TATAMOTORS == <<"T","A","T","A","M","O","T","O","R","S">>

FuzzChars == {"A", "a", " ", "-"}

RECURSIVE StringsUpTo(_)
StringsUpTo(n) ==
    IF n = 0 THEN {<<>>}
    ELSE LET shorter == StringsUpTo(n - 1)
         IN  shorter \cup {Append(s, c) : s \in shorter, c \in FuzzChars}

\* The raw symbols the resolver is run on.
RawSymbols ==
    StringsUpTo(MaxRawLen) \cup
    { TATA_MOTORS_LTD,
      <<"T","C","S">>,
      <<"t","c","s",".","n","s">>,
      <<"A","B","-","L","T","D">>,
      <<"A","B"," ","L","I","M","I","T","E","D">>,
      <<"A","B","I","N","D">>,
      <<"L","T","D">>,
      <<"A",".","N","S","B",".","N","S">>,
      <<"A","B","C","D","E","F","G","H","I","J","K","L","M","N","O","P">>,
      <<"A","B","C","D","E","F","G","H","I","J","K","-","L","T","D">> }

IdleFix ==
    /\ fix_pc = "idle"
    /\ raw_symbol = <<>>
    /\ fix_candidates = <<>>
    /\ fix_i = 1
    /\ fix_seen = {}
    /\ fix_calls = <<>>
    /\ fix_result = None

----------------------------------------------------------------------------
(* Dates: datetime.strptime(s, "%Y-%m-%d").date(), date.isoformat(),       *)
(* and the difference of two dates in days                                 *)

IsDigit(c) == c \in {"0", "1", "2", "3", "4", "5", "6", "7", "8", "9"}

DigitVal(c) ==
    CASE c = "0" -> 0 [] c = "1" -> 1 [] c = "2" -> 2 [] c = "3" -> 3 [] c = "4" -> 4
      [] c = "5" -> 5 [] c = "6" -> 6 [] c = "7" -> 7 [] c = "8" -> 8 [] c = "9" -> 9

DigitChar(n) ==
    CASE n = 0 -> "0" [] n = 1 -> "1" [] n = 2 -> "2" [] n = 3 -> "3" [] n = 4 -> "4"
      [] n = 5 -> "5" [] n = 6 -> "6" [] n = 7 -> "7" [] n = 8 -> "8" [] n = 9 -> "9"

AllDigits(s) == \A i \in 1..Len(s) : IsDigit(s[i])

RECURSIVE NumVal(_)
NumVal(s) == IF s = <<>> THEN 0 ELSE 10 * NumVal(DropLast(s, 1)) + DigitVal(s[Len(s)])

IsLeap(y) == (y % 4 = 0 /\ y % 100 # 0) \/ y % 400 = 0

DaysInMonth(y, m) ==
    CASE m \in {1, 3, 5, 7, 8, 10, 12} -> 31
      [] m \in {4, 6, 9, 11} -> 30
      [] m = 2 -> IF IsLeap(y) THEN 29 ELSE 28

\* The value of no date: strptime raised ValueError.
NoDate == <<0, 0, 0>>

\* %Y is four digits, %m and %d one or two (%d also a space and a digit); the
\* whole string must be consumed, and the day must exist in the month.
ParseDate(s) ==
    LET dashes == {i \in 1..Len(s) : s[i] = "-"}
    IN  IF Cardinality(dashes) # 2 THEN NoDate
        ELSE
        LET d1 == CHOOSE i \in dashes : \A j \in dashes : i <= j
            d2 == CHOOSE i \in dashes : \A j \in dashes : i >= j
            ys == SubSeq(s, 1, d1 - 1)
            ms == SubSeq(s, d1 + 1, d2 - 1)
            ds == SubSeq(s, d2 + 1, Len(s))
            yOk == Len(ys) = 4 /\ AllDigits(ys) /\ NumVal(ys) >= 1
            mOk == /\ Len(ms) \in {1, 2} /\ AllDigits(ms)
                   /\ NumVal(ms) \in 1..12
            dPlain == Len(ds) \in {1, 2} /\ AllDigits(ds) /\ NumVal(ds) \in 1..31
            dSpace == Len(ds) = 2 /\ ds[1] = " " /\ IsDigit(ds[2]) /\ DigitVal(ds[2]) >= 1
        IN  IF ~(yOk /\ mOk /\ (dPlain \/ dSpace)) THEN NoDate
            ELSE LET y == NumVal(ys)
                     m == NumVal(ms)
                     d == IF dSpace THEN DigitVal(ds[2]) ELSE NumVal(ds)
                 IN  IF d <= DaysInMonth(y, m) THEN <<y, m, d>> ELSE NoDate

RECURSIVE DaysBeforeMonth(_, _)
DaysBeforeMonth(y, m) == IF m = 1 THEN 0 ELSE DaysBeforeMonth(y, m - 1) + DaysInMonth(y, m - 1)

\* date.toordinal(): the day number in the proleptic Gregorian calendar.
ToOrdinal(dt) ==
    LET y == dt[1] - 1
    IN  365 * y + (y \div 4) - (y \div 100) + (y \div 400) + DaysBeforeMonth(dt[1], dt[2]) + dt[3]

Pad(n, width) ==
    [i \in 1..width |-> DigitChar((n \div (10 ^ (width - i))) % 10)]

\* date.isoformat()
IsoFormat(dt) == Pad(dt[1], 4) \o <<"-">> \o Pad(dt[2], 2) \o <<"-">> \o Pad(dt[3], 2)

----------------------------------------------------------------------------
(* JSON values and the text handed to the extractor *)

\* A JSON value of a dict: t is "absent" (no such key), "null", "str" or "num"
\* ("num" stands for every value that is not a string: a number, a boolean, a list).
JAbsent == [t |-> "absent", s |-> <<>>, n |-> 0]

JNull == [t |-> "null", s |-> <<>>, n |-> 0]

JStr(s) == [t |-> "str", s |-> s, n |-> 0]

JNum(n) == [t |-> "num", s |-> <<>>, n |-> n]

\* dict.get(key, "")
GetOrEmpty(v) == IF v.t = "absent" THEN JStr(<<>>) ELSE v

\* Python's truth value
Truthy(v) == (v.t = "str" /\ v.s # <<>>) \/ (v.t = "num" /\ v.n # 0)

\* An element of the parsed array: a dict with the three keys the extractor reads,
\* or anything else.
Dict(c, s, e) == [isdict |-> TRUE, company_name |-> c, nse_symbol |-> s, ex_date |-> e]

NotADict == [isdict |-> FALSE, company_name |-> JAbsent, nse_symbol |-> JAbsent, ex_date |-> JAbsent]

\* The text is a sequence of tokens: "[" and "]", "o" (a JSON object), "n" (a JSON
\* scalar) and "x" (anything that is not JSON).
Tokens == {"[", "]", "o", "n", "x"}

RECURSIVE TextsUpTo(_)
TextsUpTo(n) ==
    IF n = 0 THEN {<<>>}
    ELSE LET shorter == TextsUpTo(n - 1)
         IN  shorter \cup {Append(s, c) : s \in shorter, c \in Tokens}

NoSpan == <<"no match">>

\* line 253, re.search(r"\[[\s\S]*\]", text): from the first "[" to the last "]".
RegexSpan(t) ==
    LET opens == {i \in 1..Len(t) : t[i] = "["}
        closes == {i \in 1..Len(t) : t[i] = "]"}
    IN  IF opens = {} THEN NoSpan
        ELSE LET first == CHOOSE i \in opens : \A j \in opens : i <= j
                 after == {i \in closes : i > first}
             IN  IF after = {} THEN NoSpan
                 ELSE SubSeq(t, first, CHOOSE i \in after : \A j \in after : i >= j)

ParseFail == [ok |-> FALSE, next |-> 0, kind |-> "", elems |-> <<>>]

\* json.loads: value := "o" | "n" | "[" value* "]".
RECURSIVE ParseValue(_, _), ParseElems(_, _)
ParseValue(t, p) ==
    IF p > Len(t) THEN ParseFail
    ELSE CASE t[p] = "o" -> [ok |-> TRUE, next |-> p + 1, kind |-> "dict", elems |-> <<>>]
           [] t[p] = "n" -> [ok |-> TRUE, next |-> p + 1, kind |-> "scalar", elems |-> <<>>]
           [] t[p] = "[" ->
                LET r == ParseElems(t, p + 1)
                IN  IF r.ok THEN [r EXCEPT !.kind = "list"] ELSE ParseFail
           [] OTHER -> ParseFail

ParseElems(t, p) ==
    IF p > Len(t) THEN ParseFail
    ELSE IF t[p] = "]" THEN [ok |-> TRUE, next |-> p + 1, kind |-> "list", elems |-> <<>>]
    ELSE LET v == ParseValue(t, p)
         IN  IF ~v.ok THEN ParseFail
             ELSE LET rest == ParseElems(t, v.next)
                  IN  IF rest.ok
                      THEN [rest EXCEPT !.elems = <<v.kind>> \o rest.elems]
                      ELSE ParseFail

\* lines 257-260: the whole span must be one JSON value.
JsonLoads(span) ==
    LET v == ParseValue(span, 1)
    IN  IF v.ok /\ v.next = Len(span) + 1 THEN v ELSE ParseFail

----------------------------------------------------------------------------
(* _parse_gemini_dividend_response *)

\* list.sort(key=...) is a stable ascending sort.  SortPerm(keys) is the order it
\* puts the positions 1..Len(keys) in, keys[i] being the key of position i:
\* an insertion sort that moves a position left only past strictly larger keys.
RECURSIVE InsertPos(_, _, _)
InsertPos(sorted, i, keys) ==
    IF sorted = <<>> THEN <<i>>
    ELSE IF keys[sorted[Len(sorted)]] <= keys[i] THEN Append(sorted, i)
    ELSE Append(InsertPos(DropLast(sorted, 1), i, keys), sorted[Len(sorted)])

RECURSIVE SortPrefix(_, _)
SortPrefix(keys, n) ==
    IF n = 0 THEN <<>> ELSE InsertPos(SortPrefix(keys, n - 1), n, keys)

\* A descending sort read backwards: ascending, equal keys in their last order.
SortPerm_TiesReversed(keys) ==
    LET descending == SortPrefix([k \in 1..Len(keys) |-> 0 - keys[k]], Len(keys))
    IN  [k \in 1..Len(keys) |-> descending[Len(keys) + 1 - k]]

SortPerm(keys) == SortPrefix(keys, Len(keys))

Permute(seq, perm) == [k \in 1..Len(perm) |-> seq[perm[k]]]

\* lines 285-286
NormalizeSymbol(s) == IF EndsWith(Upper(s), DotNS) THEN s ELSE Upper(s) \o DotNS

\* A stricter comparison than line 282 makes: a date equal to today passes.
NotAfter_Strict(ex_date, day) == ToOrdinal(ex_date) < ToOrdinal(day)

\* line 282
NotAfter(ex_date, day) == ToOrdinal(ex_date) <= ToOrdinal(day)

\* lines 267-287, up to the first quote lookup: what the checks make of one item.
\*   "notdict", "missing", "baddate", "notfuture": the item is passed over;
\*   "raise": symbol.upper() on a value that is no string (AttributeError);
\*   "nosymbol": the item is kept without a lookup; "lookup": _validate_symbol is next.
ItemCheck(item, day) ==
    LET company == GetOrEmpty(item.company_name)
        symbol == GetOrEmpty(item.nse_symbol)
        ex_date_str == GetOrEmpty(item.ex_date)
        ex_date == IF ex_date_str.t = "str" THEN ParseDate(ex_date_str.s) ELSE NoDate
    IN  IF ~item.isdict THEN "notdict"
        ELSE IF ~Truthy(company) \/ ~Truthy(ex_date_str) THEN "missing"
        ELSE IF ex_date = NoDate THEN "baddate"
        ELSE IF NotAfter(ex_date, day) THEN "notfuture"
        ELSE IF ~Truthy(symbol) THEN "nosymbol"
        ELSE IF symbol.t # "str" THEN "raise"
        ELSE "lookup"

\* lines 297-306; item is the position in data (history, for the claims).
Candidate(pos, item, symbol, day) ==
    LET ex_date == ParseDate(GetOrEmpty(item.ex_date).s)
    IN  [ company |-> GetOrEmpty(item.company_name),
          symbol |-> symbol,
          ex_date |-> IsoFormat(ex_date),
          days_to_ex_date |-> ToOrdinal(ex_date) - ToOrdinal(day),
          item |-> pos ]

\* The dicts the model's arrays hold.
Date_2025_03_05 == JStr(<<"2","0","2","5","-","0","3","-","0","5">>)

Date_2025_3_2 == JStr(<<"2","0","2","5","-","3","-","2">>)

CompanyABC == JStr(<<"A","B","C">>)

SymbolAB == JStr(<<"A","B">>)

ItemKinds ==
    { \* the symbol varies
      Dict(CompanyABC, JNull, Date_2025_03_05),
      Dict(CompanyABC, SymbolAB, Date_2025_03_05),
      Dict(CompanyABC, JStr(<<"a","b",".","n","s">>), Date_2025_03_05),
      Dict(CompanyABC, JNum(123), Date_2025_03_05),
      Dict(CompanyABC, SymbolAB, Date_2025_3_2),
      \* the company name varies
      Dict(JAbsent, SymbolAB, Date_2025_03_05),
      Dict(JNum(7), JAbsent, Date_2025_3_2),
      \* the ex-date varies
      Dict(CompanyABC, JNull, JAbsent),
      Dict(CompanyABC, JNull, JNum(20250305)),
      Dict(CompanyABC, JNull, JStr(<<"2","0","2","5","-","0","3","-","0","1">>)),
      Dict(CompanyABC, JNull, JStr(<<"2","0","2","4","-","0","2","-","2","9">>)),
      Dict(CompanyABC, JNull, JStr(<<"2","0","2","5","-","0","2","-","2","9">>)),
      Dict(CompanyABC, JNull, JStr(<<"2","0","2","5","-","0","3","-","0","5"," ">>)) }

\* What an element of the parsed array can be.  The text's tokens say which
\* elements are dicts; what a dict holds is an input of the iteration that reads it.
ElementsOfKind(kind) == IF kind = "dict" THEN ItemKinds ELSE {NotADict}

\* lines 253-265
ExtractStart ==
    /\ ext_pc = "start"
    /\ LET span == RegexSpan(text)
           parsed == JsonLoads(span)
       IN  /\ ext_span' = span
           /\ IF span = NoSpan \/ ~parsed.ok
              THEN /\ ext_result' = <<>>
                   /\ ext_pc' = "done"
                   /\ UNCHANGED ext_kinds
              ELSE /\ ext_kinds' = parsed.elems
                   /\ ext_pc' = "items"
                   /\ UNCHANGED ext_result
    /\ ext_i' = 1
    /\ ext_candidates' = <<>>
    /\ ext_log' = <<>>
    /\ UNCHANGED <<text, today, ext_data, fixVars>>

\* The symbol the item reaches line 288 with.
ItemSymbol(item) == NormalizeSymbol(GetOrEmpty(item.nse_symbol).s)

\* An entry of ext_log: what the checks made of the item, and how the quote lookups
\* of its symbol ended ("none": there were none; "valid": the symbol validated as
\* given; "fixed": _try_fix_symbol found one; "unresolved": it returned None).
LogEntry(check, lookup) == [check |-> check, lookup |-> lookup]

\* lines 266-306: one iteration of the loop, up to the call of _try_fix_symbol.
ExtractItem ==
    /\ ext_pc = "items"
    /\ ext_i <= Len(ext_kinds)
    /\ \E item \in ElementsOfKind(ext_kinds[ext_i]) :
       /\ ext_data' = Append(ext_data, item)
       /\ LET check == ItemCheck(item, today)
           IN  CASE check \in {"notdict", "missing", "baddate", "notfuture"} ->
                  /\ ext_log' = Append(ext_log, LogEntry(check, "none"))
                  /\ ext_i' = ext_i + 1
                  /\ UNCHANGED <<ext_pc, ext_candidates, fixVars>>
             [] check = "raise" ->
                  /\ ext_log' = Append(ext_log, LogEntry(check, "none"))
                  /\ ext_pc' = "raised"
                  /\ UNCHANGED <<ext_i, ext_candidates, fixVars>>
             [] check = "nosymbol" ->
                  /\ ext_log' = Append(ext_log, LogEntry(check, "none"))
                  /\ ext_candidates' = Append(ext_candidates, Candidate(ext_i, item, None, today))
                  /\ ext_i' = ext_i + 1
                  /\ UNCHANGED <<ext_pc, fixVars>>
             [] check = "lookup" ->
                  \E outcome \in QuoteOutcomes :
                     IF ValidateSymbol(outcome)
                     THEN /\ ext_log' = Append(ext_log, LogEntry(check, "valid"))
                          /\ ext_candidates' =
                                Append(ext_candidates, Candidate(ext_i, item, ItemSymbol(item), today))
                          /\ ext_i' = ext_i + 1
                          /\ UNCHANGED <<ext_pc, fixVars>>
                     ELSE /\ ext_pc' = "fixing"
                          /\ raw_symbol' = ItemSymbol(item)
                          /\ fix_pc' = "start"
                          /\ UNCHANGED <<ext_i, ext_candidates, ext_log, fix_candidates,
                                         fix_i, fix_seen, fix_calls, fix_result>>
    /\ UNCHANGED <<text, today, ext_span, ext_kinds, ext_result>>

\* Lines 290-295 with the unresolved item kept.
AfterFix_Keep(fixed) == "append"

\* lines 290-295: with what _try_fix_symbol returned, the item is appended
\* ("append") or passed over ("continue").
AfterFix(fixed) == IF fixed # None THEN "append" ELSE "continue"

\* lines 289-306: _try_fix_symbol has returned.
ExtractFixed ==
    /\ ext_pc = "fixing"
    /\ fix_pc = "done"
    /\ ext_log' = Append(ext_log,
                         LogEntry("lookup", IF fix_result # None THEN "fixed" ELSE "unresolved"))
    /\ ext_candidates' =
          IF AfterFix(fix_result) = "append"
          THEN Append(ext_candidates, Candidate(ext_i, ext_data[ext_i], fix_result, today))
          ELSE ext_candidates
    /\ ext_i' = ext_i + 1
    /\ ext_pc' = "items"
    /\ fix_pc' = "idle"
    /\ raw_symbol' = <<>>
    /\ fix_candidates' = <<>>
    /\ fix_i' = 1
    /\ fix_seen' = {}
    /\ fix_calls' = <<>>
    /\ fix_result' = None
    /\ UNCHANGED <<text, today, ext_span, ext_kinds, ext_data, ext_result>>

\* lines 308-309
ExtractReturn ==
    /\ ext_pc = "items"
    /\ ext_i > Len(ext_kinds)
    /\ ext_result' = Permute(ext_candidates,
                              SortPerm([k \in 1..Len(ext_candidates) |->
                                          ext_candidates[k].days_to_ex_date]))
    /\ ext_pc' = "done"
    /\ UNCHANGED <<text, today, ext_span, ext_kinds, ext_data, ext_i, ext_candidates,
                   ext_log, fixVars>>

IdleExt ==
    /\ ext_pc = "idle"
    /\ text = <<>>
    /\ today = <<2025, 3, 1>>
    /\ ext_span = NoSpan
    /\ ext_kinds = <<>>
    /\ ext_data = <<>>
    /\ ext_i = 1
    /\ ext_candidates = <<>>
    /\ ext_log = <<>>
    /\ ext_result = <<>>

Todays == {<<2025, 3, 1>>, <<2024, 2, 28>>}

----------------------------------------------------------------------------
(* The scanners of scanner_agent.py.  Prices are integers in paise (0.01       *)
(* rupee), ratios in hundredths, returns in ten-thousandths; the arithmetic is *)
(* exact (the rounding error of floating point is not modelled).  The highs    *)
(* and lows of a fetched series only pass through to detect_breakout and       *)
(* compute_atr, whose answers are inputs here, and are left out.               *)

\* round(num / den, 0) for den > 0: to the nearest integer, halves to the even one.
RoundHalfEven(num, den) ==
    LET q == num \div den
        r == num % den
    IN  IF 2 * r < den THEN q
        ELSE IF 2 * r > den THEN q + 1
        ELSE IF q % 2 = 0 THEN q ELSE q + 1

RECURSIVE Sum(_)
Sum(seq) == IF seq = <<>> THEN 0 ELSE Sum(DropLast(seq, 1)) + seq[Len(seq)]

\* seq[-n:]
LastN(seq, n) == SubSeq(seq, Max(Len(seq) - n, 0) + 1, Len(seq))

\* seq[-n] for n <= len(seq)
FromEnd(seq, n) == seq[Len(seq) - n + 1]

\* A series of n bars, all at base but the most recent, at last.
Series(n, base, last) == [i \in 1..n |-> IF i = n THEN last ELSE base]

\* fetch_stock_data: an error envelope, or closes and volumes of one length.
FetchError == [status |-> "error", closes |-> <<>>, volumes |-> <<>>]

Fetched(n, close_base, close_last, volume_base, volume_last) ==
    [ status |-> "success",
      closes |-> Series(n, close_base, close_last),
      volumes |-> Series(n, volume_base, volume_last) ]

FetchResponses(which) ==
    CASE which = "breakout" -> {FetchError, Fetched(21, 10000, 10300, 1000, 1500)}
      [] which = "momentum" ->
            { FetchError,
              Fetched(5, 10000, 10300, 1000, 1500),
              Fetched(20, 10000, 10300, 1000, 1500),
              Fetched(21, 10000, 10100, 1000, 1500),
              Fetched(21, 10000, 10300, 1000, 900),
              Fetched(21, 10000, 10300, 1000, 1500),
              Fetched(21, 10000, 10500, 1000, 1500),
              Fetched(50, 10000, 9700, 0, 5) }
      [] which = "oversold" ->
            { FetchError,
              Fetched(59, 10000, 9500, 1000, 1000),
              Fetched(60, 10000, 9500, 1000, 1000) }

\* fetch_stock_news: the articles, each with days_ago a number or None.
Article(has_days, days_ago) == [has_days |-> has_days, days_ago |-> days_ago]

ArticleKinds == {Article(FALSE, 0), Article(TRUE, 0), Article(TRUE, 3), Article(TRUE, 4)}

RECURSIVE ArticleLists(_)
ArticleLists(n) ==
    IF n = 0 THEN {<<>>}
    ELSE LET shorter == ArticleLists(n - 1)
         IN  shorter \cup {Append(l, a) : l \in shorter, a \in ArticleKinds}

NewsResponses == ArticleLists(MaxArticles)

\* detect_breakout: its status, flag and volume_ratio (in hundredths).
BreakoutResult(status, is_breakout, volume_ratio) ==
    [status |-> status, is_breakout |-> is_breakout, volume_ratio |-> volume_ratio]

BreakoutResults ==
    { BreakoutResult("error", FALSE, 0),
      BreakoutResult("success", FALSE, 120),
      BreakoutResult("success", TRUE, 160),
      BreakoutResult("success", TRUE, 200) }

\* compute_rsi: a value, or None (NoRsi).
NoRsi == 0 - 1

RsiResults == {NoRsi, 20, 35, 40}

\* compute_index_metrics: its status and dma_50 (paise).
MetricsResult(status, dma_50) == [status |-> status, dma_50 |-> dma_50]

MetricsResults ==
    { MetricsResult("error", 0),
      MetricsResult("success", 9000),
      MetricsResult("success", 9500),
      MetricsResult("success", 11000) }

\* compute_atr (paise)
AtrResults == {251, 20000}

\* What one symbol's collaborators answered (history, for the claims); pos is the
\* symbol's position in symbols.
ScanLogEntry(pos, data, articles, breakout, rsi, metrics, atr) ==
    [ pos |-> pos, data |-> data, articles |-> articles, breakout |-> breakout,
      rsi |-> rsi, metrics |-> metrics, atr |-> atr ]

NoArticles == <<>>

NoBreakout == BreakoutResult("none", FALSE, 0)

NoMetrics == MetricsResult("none", 0)

\* lines 41, 116, 200: the entry of errors for a failed fetch.
ErrorEntry(sym) == [symbol |-> sym, message |-> "fetch failed"]

\* The loop leaves at the first failed fetch.
AfterFetchError_Break(i, n) == n + 1

\* lines 42, 117, 201: continue, that is the next symbol.
AfterFetchError(i, n) == i + 1

\* lines 62, 167, 252: errors if errors else None
ErrorsOrNone(errs) == [none |-> errs = <<>>, list |-> errs]

\* lines 57-63, 161-168, 244-253: the returned dict (the keys that vary).
ScanResult(n_scanned, cands, errs) ==
    [ status |-> "success",
      stocks_scanned |-> n_scanned,
      count |-> Len(cands),
      candidates |-> cands,
      scan_errors |-> ErrorsOrNone(errs) ]

\* An ascending sort read backwards: descending, equal keys in their last order.
SortDescending_Reversed(seq, keys) ==
    LET ascending == Permute(seq, SortPerm(keys))
    IN  [k \in 1..Len(ascending) |-> ascending[Len(ascending) + 1 - k]]

\* list.sort(key=..., reverse=True): descending, equal keys in their first order.
SortDescending(seq, keys) == Permute(seq, SortPerm([k \in 1..Len(keys) |-> 0 - keys[k]]))

SortAscending(seq, keys) == Permute(seq, SortPerm(keys))

\* lines 39-42, 114-117, 198-201: the fetch failed.
FetchFailed(entry) ==
    /\ errors' = Append(errors, ErrorEntry(symbols[scan_i]))
    /\ scan_log' = Append(scan_log, entry)
    /\ scan_i' = AfterFetchError(scan_i, Len(symbols))
    /\ UNCHANGED <<scanned, scan_candidates>>

\* The symbol was fetched and is, or is not, a candidate.
Fetched_(entry, cands) ==
    /\ scanned' = Append(scanned, symbols[scan_i])
    /\ scan_log' = Append(scan_log, entry)
    /\ scan_candidates' = scan_candidates \o cands
    /\ scan_i' = scan_i + 1
    /\ UNCHANGED errors

(* scan_watchlist_breakouts *)

\* lines 38-53: one iteration.
BreakoutIteration ==
    /\ scan_pc = "loop"
    /\ scanner = "breakout"
    /\ scan_i <= Len(symbols)
    /\ \E data \in FetchResponses("breakout") :
          IF data.status # "success"
          THEN FetchFailed(ScanLogEntry(scan_i, data, NoArticles, NoBreakout, NoRsi, NoMetrics, 0))
          ELSE \E result \in BreakoutResults :
                  Fetched_(ScanLogEntry(scan_i, data, NoArticles, result, NoRsi, NoMetrics, 0),
                           IF result.status = "success" /\ result.is_breakout
                           THEN << [ pos |-> scan_i, symbol |-> symbols[scan_i],
                                     volume_ratio |-> result.volume_ratio ] >>
                           ELSE <<>>)
    /\ UNCHANGED <<scan_pc, scanner, symbols, rsi_max, require_below_50dma, scan_result>>

\* lines 55-63
BreakoutReturn ==
    /\ scan_pc = "loop"
    /\ scanner = "breakout"
    /\ scan_i > Len(symbols)
    /\ LET sorted == SortDescending(scan_candidates,
                        [k \in 1..Len(scan_candidates) |-> scan_candidates[k].volume_ratio])
       IN  /\ scan_candidates' = sorted
           /\ scan_result' = ScanResult(Len(scanned), sorted, errors)
    /\ scan_pc' = "done"
    /\ UNCHANGED <<scanner, symbols, rsi_max, require_below_50dma, scan_i, scanned, errors,
                   scan_log>>

(* scan_announcement_momentum *)

\* line 126, in ten-thousandths (not yet rounded): the sign and size of the move.
PriceChange5d(closes) ==
    [num |-> 10000 * (FromEnd(closes, 1) - FromEnd(closes, 6)), den |-> FromEnd(closes, 6)]

\* lines 127-128, in hundredths: round(volumes[-1] / max(avg_20d_volume, 1), 2) with
\* avg_20d_volume = sum(volumes[-21:-1]) / 20.
VolumeRatio(volumes) ==
    LET sum20 == Sum(DropLast(LastN(volumes, 21), 1))
    IN  RoundHalfEven(100 * 20 * FromEnd(volumes, 1), Max(sum20, 20))

\* line 131: abs(price_change_5d) > 0.02 and volume_ratio > 1.0
HasMomentum(closes, volumes) ==
    /\ 50 * Abs(FromEnd(closes, 1) - FromEnd(closes, 6)) > FromEnd(closes, 6)
    /\ VolumeRatio(volumes) > 100

\* line 138: (a.get("days_ago") or 999) <= 3
DaysAgoOr999(a) == IF a.has_days /\ a.days_ago # 0 THEN a.days_ago ELSE 999

RecentNews(articles) == SelectSeq(articles, LAMBDA a : DaysAgoOr999(a) <= 3)

\* lines 129, 143-157 (the headlines are the first five of recent_news)
MomentumCandidate(pos, sym, closes, volumes, recent_news) ==
    LET change == PriceChange5d(closes)
        sum50 == Sum(LastN(closes, 50))
        last == FromEnd(closes, 1)
    IN  [ pos |-> pos,
          symbol |-> sym,
          close |-> last,
          price_change_5d |-> RoundHalfEven(change.num, change.den),
          volume_ratio |-> VolumeRatio(volumes),
          above_50dma |-> IF Len(closes) >= 50 THEN 50 * last > sum50 ELSE FALSE,
          dma_50 |-> IF Len(closes) >= 50 THEN RoundHalfEven(sum50, 50) ELSE last,
          direction |-> IF change.num > 0 THEN "BULLISH" ELSE "BEARISH",
          recent_news_count |-> Len(recent_news),
          news_headlines |-> Take(recent_news, 5) ]

\* lines 113-157: one iteration.
MomentumIteration ==
    /\ scan_pc = "loop"
    /\ scanner = "momentum"
    /\ scan_i <= Len(symbols)
    /\ \E data \in FetchResponses("momentum") :
          IF data.status # "success"
          THEN FetchFailed(ScanLogEntry(scan_i, data, NoArticles, NoBreakout, NoRsi, NoMetrics, 0))
          ELSE IF Len(data.closes) < 6 \/ Len(data.volumes) < 21
                  \/ ~HasMomentum(data.closes, data.volumes)
          THEN Fetched_(ScanLogEntry(scan_i, data, NoArticles, NoBreakout, NoRsi, NoMetrics, 0),
                        <<>>)
          ELSE \E articles \in NewsResponses :
                  Fetched_(ScanLogEntry(scan_i, data, articles, NoBreakout, NoRsi, NoMetrics, 0),
                           IF RecentNews(articles) # <<>>
                           THEN << MomentumCandidate(scan_i, symbols[scan_i], data.closes,
                                                     data.volumes, RecentNews(articles)) >>
                           ELSE <<>>)
    /\ UNCHANGED <<scan_pc, scanner, symbols, rsi_max, require_below_50dma, scan_result>>

\* lines 159-168
MomentumReturn ==
    /\ scan_pc = "loop"
    /\ scanner = "momentum"
    /\ scan_i > Len(symbols)
    /\ LET sorted == SortDescending(scan_candidates,
                        [k \in 1..Len(scan_candidates) |->
                            Abs(scan_candidates[k].price_change_5d)])
       IN  /\ scan_candidates' = sorted
           /\ scan_result' = ScanResult(Len(scanned), sorted, errors)
    /\ scan_pc' = "done"
    /\ UNCHANGED <<scanner, symbols, rsi_max, require_below_50dma, scan_i, scanned, errors,
                   scan_log>>

(* scan_oversold_bounce *)

\* line 226 without the floor of 0.01.
OversoldStop_NoFloor(close, atr) == RoundHalfEven(5 * close - 4 * atr, 5)

\* line 226, in paise: round(max(0.01, close - 0.8 * atr), 2)
OversoldStop(close, atr) ==
    IF 5 * close - 4 * atr < 5 THEN 1 ELSE RoundHalfEven(5 * close - 4 * atr, 5)

\* The close is at or below the average.
Below50_OrEqual(close, dma_50) == close <= dma_50

\* line 220
Below50(close, dma_50) == close < dma_50

\* lines 228, 230-240
OversoldCandidate(pos, sym, close, rsi, dma_50, atr) ==
    [ pos |-> pos,
      symbol |-> sym,
      close |-> close,
      rsi |-> rsi,
      dma_50 |-> dma_50,
      below_50dma |-> Below50(close, dma_50),
      pct_below_50dma |-> IF dma_50 # 0 THEN RoundHalfEven(10000 * (dma_50 - close), dma_50)
                          ELSE 0,
      atr |-> atr,
      suggested_stop |-> OversoldStop(close, atr) ]

\* lines 197-240: one iteration.
OversoldIteration ==
    /\ scan_pc = "loop"
    /\ scanner = "oversold"
    /\ scan_i <= Len(symbols)
    /\ \E data \in FetchResponses("oversold") :
          IF data.status # "success"
          THEN FetchFailed(ScanLogEntry(scan_i, data, NoArticles, NoBreakout, NoRsi, NoMetrics, 0))
          ELSE IF Len(data.closes) < 60
          THEN Fetched_(ScanLogEntry(scan_i, data, NoArticles, NoBreakout, NoRsi, NoMetrics, 0),
                        <<>>)
          ELSE \E rsi \in RsiResults :
             IF rsi = NoRsi \/ rsi > rsi_max
             THEN Fetched_(ScanLogEntry(scan_i, data, NoArticles, NoBreakout, rsi, NoMetrics, 0),
                           <<>>)
             ELSE \E metrics \in MetricsResults :
                IF metrics.status # "success"
                   \/ (require_below_50dma
                          /\ ~Below50(FromEnd(data.closes, 1), metrics.dma_50))
                THEN Fetched_(ScanLogEntry(scan_i, data, NoArticles, NoBreakout, rsi, metrics, 0),
                              <<>>)
                ELSE \E atr \in AtrResults :
                        Fetched_(ScanLogEntry(scan_i, data, NoArticles, NoBreakout, rsi,
                                              metrics, atr),
                                 << OversoldCandidate(scan_i, symbols[scan_i],
                                                      FromEnd(data.closes, 1), rsi,
                                                      metrics.dma_50, atr) >>)
    /\ UNCHANGED <<scan_pc, scanner, symbols, rsi_max, require_below_50dma, scan_result>>

\* lines 242-253
OversoldReturn ==
    /\ scan_pc = "loop"
    /\ scanner = "oversold"
    /\ scan_i > Len(symbols)
    /\ LET sorted == SortAscending(scan_candidates,
                        [k \in 1..Len(scan_candidates) |-> scan_candidates[k].rsi])
       IN  /\ scan_candidates' = sorted
           /\ scan_result' = ScanResult(Len(scanned), sorted, errors)
    /\ scan_pc' = "done"
    /\ UNCHANGED <<scanner, symbols, rsi_max, require_below_50dma, scan_i, scanned, errors,
                   scan_log>>

NoResult == ScanResult(0, <<>>, <<>>)

IdleScan ==
    /\ scan_pc = "idle"
    /\ scanner = "breakout"
    /\ symbols = <<>>
    /\ rsi_max = 35
    /\ require_below_50dma = TRUE
    /\ scan_i = 1
    /\ scanned = <<>>
    /\ errors = <<>>
    /\ scan_candidates = <<>>
    /\ scan_log = <<>>
    /\ scan_result = NoResult

\* The symbols of a universe of n.
Universe(n) == [i \in 1..n |-> <<"SYM", i>>]

----------------------------------------------------------------------------
(* scan_dividend_opportunities of dividend_agent.py.  Prices are in paise,     *)
(* health scores in points, yields in thousandths of a percent, rank scores in *)
(* hundredths of a point before rounding and in tenths after.  The fields of a *)
(* candidate that only pass through (company, ex_date, dividend_amount_rs,     *)
(* announcement_date) are left out.                                            *)

\* What search_upcoming_dividends discovers: the extractor's candidates have a
\* symbol or None, and a days_to_ex_date of at least 1, and are sorted by it.
DaysToEx == {1, 3, 5}

Discovered(symbol, days) == [symbol |-> symbol, days_to_ex_date |-> days]

RECURSIVE DiscoveredLists(_)
DiscoveredLists(n) ==
    IF n = 0 THEN {<<>>}
    ELSE LET shorter == DiscoveredLists(n - 1)
             longest == {m \in shorter : Len(m) = n - 1}
             more == {t \in longest \X {Universe(n)[n], None} \X DaysToEx :
                         \A k \in 1..(n - 1) : t[1][k].days_to_ex_date <= t[3]}
         IN  shorter \cup {Append(t[1], Discovered(t[2], t[3])) : t \in more}

CandidateLists == DiscoveredLists(MaxCandidates)

SearchResults ==
    {[status |-> "error", candidates |-> <<>>]}
        \cup {[status |-> "success", candidates |-> l] : l \in CandidateLists}

\* assess_dividend_health: its status, dividend_health and health_score.
Health(status, verdict, score) ==
    [status |-> status, dividend_health |-> verdict, health_score |-> score]

HealthResponses ==
    { Health("error", "UNKNOWN", 0),
      Health("success", "HEALTHY", 60),
      Health("success", "CAUTION", 40),
      Health("success", "DESPERATE", 10) }

NoHealth == Health("none", "UNKNOWN", 0)

\* fetch_stock_data inside the dividend scan: one series, or an error envelope.
DividendFetchResponses == {FetchError, Fetched(60, 10000, 10000, 1000, 1000)}

NoFetch == [status |-> "none", closes |-> <<>>, volumes |-> <<>>]

\* compute_index_metrics inside the dividend scan: status, dma_50 (paise) and the
\* sign of dma_50_slope.
TrendMetrics(status, dma_50, slope) ==
    [status |-> status, dma_50 |-> dma_50, dma_50_slope |-> slope]

TrendResults ==
    { TrendMetrics("error", 0, 0),
      TrendMetrics("success", 9000, 1),
      TrendMetrics("success", 9000, 0 - 1),
      TrendMetrics("success", 11000, 1),
      TrendMetrics("success", 11000, 0 - 1) }

NoTrend == TrendMetrics("none", 0, 0)

\* compute_atr inside the dividend scan (paise)
DividendAtr == 250

\* get_stock_fundamentals: dividendYield, or None (NoYield).
NoYield == 0 - 1

YieldResults == {NoYield, 1500, 1502}

\* lines 120-128 without the trend bonus.
RankScore_NoTrend(health_score, div_yield, uptrend, above_50dma, days_left) ==
    100 * health_score
        + (IF div_yield # NoYield /\ div_yield > 0 THEN div_yield ELSE 0)
        + (IF above_50dma THEN 1000 ELSE 0)
        + (IF days_left >= 5 THEN 1000 ELSE 0)

\* lines 120-128, in hundredths of a point.
RankScore(health_score, div_yield, uptrend, above_50dma, days_left) ==
    100 * health_score
        + (IF div_yield # NoYield /\ div_yield > 0 THEN div_yield ELSE 0)
        + (IF uptrend THEN 1500 ELSE 0)
        + (IF above_50dma THEN 1000 ELSE 0)
        + (IF days_left >= 5 THEN 1000 ELSE 0)

\* No verdict is taken for DESPERATE.
IsDesperate_Never(verdict) == FALSE

\* line 90
IsDesperate(verdict) == verdict = "DESPERATE"

\* lines 67-74 with skip_reason; item is the candidate's position in filtered.
Skipped(item, candidate, reason) ==
    [item |-> item, symbol |-> candidate.symbol, days_to_ex |-> candidate.days_to_ex_date,
     skip_reason |-> reason]

\* lines 130-148
Opportunity(item, candidate, health, closes, metrics, atr, div_yield) ==
    LET last == FromEnd(closes, 1)
        above_50dma == last > metrics.dma_50
        uptrend == metrics.dma_50_slope > 0
    IN  [ item |-> item,
          symbol |-> candidate.symbol,
          days_to_ex |-> candidate.days_to_ex_date,
          dividend_health |-> health.dividend_health,
          health_score |-> health.health_score,
          dividend_yield_pct |-> IF div_yield # NoYield /\ div_yield # 0
                                 THEN RoundHalfEven(div_yield, 10) ELSE NoYield,
          current_price |-> last,
          dma_50 |-> metrics.dma_50,
          above_50dma |-> above_50dma,
          uptrend |-> uptrend,
          atr |-> atr,
          suggested_entry |-> last,
          suggested_stop |-> RoundHalfEven(2 * last - 3 * atr, 2),
          rank_score |-> RoundHalfEven(RankScore(health.health_score, div_yield, uptrend,
                                                 above_50dma, candidate.days_to_ex_date), 10) ]

\* What one candidate's collaborators answered, and the order of the calls.
DivLogEntry(item, calls, health, data, metrics, div_yield) ==
    [ item |-> item, calls |-> calls, health |-> health, data |-> data,
      metrics |-> metrics, div_yield |-> div_yield ]

\* The dict returned; keys tells which of its three shapes it has.
DivResult(keys, status, n_candidates, n_filtered, opps, skips) ==
    [ keys |-> keys,
      status |-> status,
      dividends_discovered |-> n_candidates,
      analyzed |-> n_filtered,
      opportunities_count |-> Len(opps),
      top_opportunities |-> Take(opps, 8),
      skipped_count |-> Len(skips),
      skipped_summary |-> Take([k \in 1..Len(skips) |->
                                   [symbol |-> skips[k].symbol, reason |-> skips[k].skip_reason]],
                               10) ]

NoDivResult == DivResult("none", "none", 0, 0, <<>>, <<>>)

\* No candidate is left out.
Filtered_All(candidates, min_days) == candidates

\* line 56
Filtered(candidates, min_days) ==
    SelectSeq(candidates, LAMBDA c : c.days_to_ex_date >= min_days)

\* lines 38-59: the search, its two early returns, and the filter.
DivStart ==
    /\ div_pc = "start"
    /\ IF search_result.status # "success"
       THEN /\ div_result' = DivResult("error", "error", 0, 0, <<>>, <<>>)
            /\ div_pc' = "done"
            /\ UNCHANGED filtered
       ELSE IF search_result.candidates = <<>>
       THEN /\ div_result' = DivResult("message", "success", 0, 0, <<>>, <<>>)
            /\ div_pc' = "done"
            /\ UNCHANGED filtered
       ELSE /\ filtered' = Filtered(search_result.candidates, min_days_to_ex)
            /\ div_pc' = "loop"
            /\ UNCHANGED div_result
    /\ UNCHANGED <<search_result, min_days_to_ex, div_i, opportunities, skipped, div_log>>

\* The loop leaves at the first candidate skipped.
AfterSkip_Break(i, n) == n + 1

\* lines 78, 85, 95, 100, 109: continue, that is the next candidate.
AfterSkip(i, n) == i + 1

\* The candidate is skipped.
Skip(reason, entry) ==
    /\ skipped' = Append(skipped, Skipped(div_i, filtered[div_i], reason))
    /\ div_log' = Append(div_log, entry)
    /\ div_i' = AfterSkip(div_i, Len(filtered))
    /\ UNCHANGED opportunities

\* lines 61-148: one iteration.
DivIteration ==
    /\ div_pc = "loop"
    /\ div_i <= Len(filtered)
    /\ LET candidate == filtered[div_i]
       IN  IF candidate.symbol = None
           THEN Skip("NSE symbol not identified by search",
                     DivLogEntry(div_i, <<>>, NoHealth, NoFetch, NoTrend, NoYield))
           ELSE \E health \in HealthResponses :
              IF health.status # "success"
              THEN Skip("yfinance data not available",
                        DivLogEntry(div_i, <<"health">>, health, NoFetch, NoTrend, NoYield))
              ELSE IF IsDesperate(health.dividend_health)
              THEN Skip("DESPERATE dividend",
                        DivLogEntry(div_i, <<"health">>, health, NoFetch, NoTrend, NoYield))
              ELSE \E data \in DividendFetchResponses :
                 IF data.status # "success"
                 THEN Skip("price history fetch failed",
                           DivLogEntry(div_i, <<"health", "fetch">>, health, data, NoTrend,
                                       NoYield))
                 ELSE \E metrics \in TrendResults :
                    IF metrics.status # "success"
                    THEN Skip("insufficient price history",
                              DivLogEntry(div_i, <<"health", "fetch", "metrics">>, health, data,
                                          metrics, NoYield))
                    ELSE \E div_yield \in YieldResults :
                            /\ opportunities' =
                                  Append(opportunities,
                                         Opportunity(div_i, candidate, health, data.closes,
                                                     metrics, DividendAtr, div_yield))
                            /\ div_log' =
                                  Append(div_log,
                                         DivLogEntry(div_i, <<"health", "fetch", "metrics", "atr",
                                                              "fundamentals">>,
                                                     health, data, metrics, div_yield))
                            /\ div_i' = div_i + 1
                            /\ UNCHANGED skipped
    /\ UNCHANGED <<div_pc, search_result, min_days_to_ex, filtered, div_result>>

\* lines 150-169
DivReturn ==
    /\ div_pc = "loop"
    /\ div_i > Len(filtered)
    /\ LET sorted == SortDescending(opportunities,
                        [k \in 1..Len(opportunities) |-> opportunities[k].rank_score])
       IN  /\ opportunities' = sorted
           /\ div_result' = DivResult("full", "success", Len(search_result.candidates),
                                      Len(filtered), sorted, skipped)
    /\ div_pc' = "done"
    /\ UNCHANGED <<search_result, min_days_to_ex, filtered, div_i, skipped, div_log>>

IdleDiv ==
    /\ div_pc = "idle"
    /\ search_result = [status |-> "error", candidates |-> <<>>]
    /\ min_days_to_ex = 3
    /\ filtered = <<>>
    /\ div_i = 1
    /\ opportunities = <<>>
    /\ skipped = <<>>
    /\ div_log = <<>>
    /\ div_result = NoDivResult

----------------------------------------------------------------------------
(* analyze_dividend_stock of dividend_agent.py                                *)

\* The symbols it is called with.
AnalyzeSymbols == {<<"a","b">>, <<"A","B",".","N","S">>, <<"^","N">>}

\* lines 184-185
AnalyzeSymbol(symbol) ==
    IF ~EndsWith(Upper(symbol), DotNS) /\ ~StartsWith(symbol, <<"^">>)
    THEN Upper(symbol) \o DotNS
    ELSE symbol

\* compute_atr inside analyze_dividend_stock (paise)
AnalyzeAtrResults == {250, 20000}

\* lines 193-200, 216-226: the dict returned; has_levels tells whether it has the
\* keys technicals and trade_levels.
Analysis(status, symbol, health, has_levels, closes, metrics, atr) ==
    LET last == IF has_levels THEN FromEnd(closes, 1) ELSE 0
    IN  [ status |-> status,
          symbol |-> symbol,
          dividend_health |-> health.dividend_health,
          health_score |-> health.health_score,
          has_levels |-> has_levels,
          current_price |-> last,
          above_50dma |-> has_levels /\ last > metrics.dma_50,
          uptrend |-> has_levels /\ metrics.dma_50_slope > 0,
          atr |-> IF has_levels THEN atr ELSE 0,
          suggested_entry |-> last,
          suggested_stop |-> IF has_levels THEN RoundHalfEven(2 * last - 3 * atr, 2) ELSE 0,
          risk_per_share |-> IF has_levels THEN RoundHalfEven(3 * atr, 2) ELSE 0 ]

NoAnalysis == Analysis("none", <<>>, NoHealth, FALSE, <<>>, NoTrend, 0)

\* lines 184-235: the whole call.
AnalyzeDividendStock ==
    /\ ana_pc = "start"
    /\ LET symbol == AnalyzeSymbol(ana_symbol)
       IN  \E fundamentals \in {"error", "success"} :
              IF fundamentals # "success"
              THEN analysis' = Analysis("error", symbol, NoHealth, FALSE, <<>>, NoTrend, 0)
              ELSE \E health \in HealthResponses, data \in DividendFetchResponses :
                      IF data.status # "success"
                      THEN analysis' = Analysis("success", symbol, health, FALSE, <<>>,
                                                NoTrend, 0)
                      ELSE \E metrics \in TrendResults, atr \in AnalyzeAtrResults :
                              analysis' = Analysis("success", symbol, health,
                                                   metrics.status = "success",
                                                   data.closes, metrics, atr)
    /\ ana_pc' = "done"
    /\ UNCHANGED ana_symbol

IdleAna ==
    /\ ana_pc = "idle"
    /\ ana_symbol = <<>>
    /\ analysis = NoAnalysis

vars == <<fixVars, extVars, scanVars, divVars, anaVars>>

----------------------------------------------------------------------------
(* Specifications *)

\* The resolver on its own.
InitFix ==
    /\ fix_pc = "start"
    /\ raw_symbol \in RawSymbols
    /\ fix_candidates = <<>>
    /\ fix_i = 1
    /\ fix_seen = {}
    /\ fix_calls = <<>>
    /\ fix_result = None
    /\ IdleExt
    /\ IdleScan
    /\ IdleDiv
    /\ IdleAna

NextFix ==
    \/ TryFixStart /\ UNCHANGED <<extVars, scanVars, divVars, anaVars>>
    \/ TryFixStep /\ UNCHANGED <<extVars, scanVars, divVars, anaVars>>
    \/ TryFixExhausted /\ UNCHANGED <<extVars, scanVars, divVars, anaVars>>

SpecFix == InitFix /\ [][NextFix]_vars

\* The extractor, with the resolver it calls.
InitExt ==
    /\ ext_pc = "start"
    /\ text \in TextsUpTo(MaxTextLen)
    /\ today \in Todays
    /\ ext_span = NoSpan
    /\ ext_kinds = <<>>
    /\ ext_data = <<>>
    /\ ext_i = 1
    /\ ext_candidates = <<>>
    /\ ext_log = <<>>
    /\ ext_result = <<>>
    /\ IdleFix
    /\ IdleScan
    /\ IdleDiv
    /\ IdleAna

NextExt ==
    \/ ExtractStart /\ UNCHANGED <<scanVars, divVars, anaVars>>
    \/ ExtractItem /\ UNCHANGED <<scanVars, divVars, anaVars>>
    \/ ExtractFixed /\ UNCHANGED <<scanVars, divVars, anaVars>>
    \/ ExtractReturn /\ UNCHANGED <<scanVars, divVars, anaVars>>
    \/ TryFixStart /\ UNCHANGED <<extVars, scanVars, divVars, anaVars>>
    \/ TryFixStep /\ UNCHANGED <<extVars, scanVars, divVars, anaVars>>
    \/ TryFixExhausted /\ UNCHANGED <<extVars, scanVars, divVars, anaVars>>

SpecExt == InitExt /\ [][NextExt]_vars

\* The three scanners, each on a universe of symbols.
InitScan ==
    /\ scan_pc = "loop"
    /\ scanner \in {"breakout", "momentum", "oversold"}
    /\ symbols \in {Universe(n) : n \in 1..MaxSymbols}
    /\ rsi_max \in {30, 35}
    /\ require_below_50dma \in BOOLEAN
    /\ scanner # "oversold" => (rsi_max = 35 /\ require_below_50dma)
    /\ scan_i = 1
    /\ scanned = <<>>
    /\ errors = <<>>
    /\ scan_candidates = <<>>
    /\ scan_log = <<>>
    /\ scan_result = NoResult
    /\ IdleFix
    /\ IdleExt
    /\ IdleDiv
    /\ IdleAna

NextScan ==
    \/ BreakoutIteration /\ UNCHANGED <<fixVars, extVars, divVars, anaVars>>
    \/ BreakoutReturn /\ UNCHANGED <<fixVars, extVars, divVars, anaVars>>
    \/ MomentumIteration /\ UNCHANGED <<fixVars, extVars, divVars, anaVars>>
    \/ MomentumReturn /\ UNCHANGED <<fixVars, extVars, divVars, anaVars>>
    \/ OversoldIteration /\ UNCHANGED <<fixVars, extVars, divVars, anaVars>>
    \/ OversoldReturn /\ UNCHANGED <<fixVars, extVars, divVars, anaVars>>

SpecScan == InitScan /\ [][NextScan]_vars

\* The dividend scan on what the search discovered.
InitDiv ==
    /\ div_pc = "start"
    /\ search_result \in SearchResults
    /\ min_days_to_ex \in {3, 5}
    /\ filtered = <<>>
    /\ div_i = 1
    /\ opportunities = <<>>
    /\ skipped = <<>>
    /\ div_log = <<>>
    /\ div_result = NoDivResult
    /\ IdleFix
    /\ IdleExt
    /\ IdleScan
    /\ IdleAna

NextDiv ==
    \/ DivStart /\ UNCHANGED <<fixVars, extVars, scanVars, anaVars>>
    \/ DivIteration /\ UNCHANGED <<fixVars, extVars, scanVars, anaVars>>
    \/ DivReturn /\ UNCHANGED <<fixVars, extVars, scanVars, anaVars>>

SpecDiv == InitDiv /\ [][NextDiv]_vars

\* One call of a tool that suggests a stop: the oversold scanner, the dividend
\* scan, or the analysis of one dividend stock.
InitAnalyze ==
    /\ ana_pc = "start"
    /\ ana_symbol \in AnalyzeSymbols
    /\ analysis = NoAnalysis
    /\ IdleFix
    /\ IdleExt
    /\ IdleScan
    /\ IdleDiv

InitStop ==
    \/ InitScan /\ scanner = "oversold"
    \/ InitDiv
    \/ InitAnalyze

NextStop ==
    \/ OversoldIteration /\ UNCHANGED <<fixVars, extVars, divVars, anaVars>>
    \/ OversoldReturn /\ UNCHANGED <<fixVars, extVars, divVars, anaVars>>
    \/ DivStart /\ UNCHANGED <<fixVars, extVars, scanVars, anaVars>>
    \/ DivIteration /\ UNCHANGED <<fixVars, extVars, scanVars, anaVars>>
    \/ DivReturn /\ UNCHANGED <<fixVars, extVars, scanVars, anaVars>>
    \/ AnalyzeDividendStock /\ UNCHANGED <<fixVars, extVars, scanVars, divVars>>

SpecStop == InitStop /\ [][NextStop]_vars

----------------------------------------------------------------------------
(* Claims about the Symbol Resolver (checked under SpecFix) *)

\* C3: for the raw input "TATA MOTORS LTD", when no candidate validates, the
\* candidate "TATAMOTORS" (exchange-suffixed) was among the candidates submitted to
\* validation before None is returned.
C3_TataMotorsSubmitted ==
    (fix_pc = "done" /\ raw_symbol = TATA_MOTORS_LTD /\ fix_result = None)
        => \E k \in 1..Len(fix_calls) : fix_calls[k].sym = TATAMOTORS \o DotNS

\* The first occurrences of the non-empty elements of a sequence, in order.
RECURSIVE C4_Distinct(_)
C4_Distinct(seq) ==
    IF seq = <<>> THEN <<>>
    ELSE LET front == C4_Distinct(DropLast(seq, 1))
             x == seq[Len(seq)]
         IN  IF x = <<>> \/ \E k \in 1..Len(front) : front[k] = x
             THEN front
             ELSE Append(front, x)

\* The distinct non-empty candidates of the raw symbol, in generation order.
C4_Expected ==
    LET generated == FixCandidates(raw_symbol)
    IN  C4_Distinct([k \in 1..Len(generated) |-> Strip(generated[k])])

\* C4: the validation calls made so far are a prefix of the distinct non-empty
\* candidates in generation order, each with ".NS" appended (so no candidate is
\* validated twice); only the last call can have validated, and then the resolver
\* has returned exactly that symbol; it returns None only after every candidate was
\* submitted and failed.
C4_ShortCircuitInOrder ==
    fix_pc \in {"loop", "done"} =>
        LET n == Len(fix_calls)
        IN  /\ n <= Len(C4_Expected)
            /\ \A k \in 1..n : fix_calls[k].sym = C4_Expected[k] \o DotNS
            /\ \A k \in 1..(n - 1) : fix_calls[k].outcome # "price"
            /\ (n > 0 /\ fix_calls[n].outcome = "price")
                  => (fix_pc = "done" /\ fix_result = fix_calls[n].sym)
            /\ (fix_pc = "done" /\ fix_result # None)
                  => (n > 0 /\ fix_calls[n].outcome = "price" /\ fix_result = fix_calls[n].sym)
            /\ (fix_pc = "done" /\ fix_result = None)
                  => (n = Len(C4_Expected) /\ \A k \in 1..n : fix_calls[k].outcome # "price")

\* C4's case: the second candidate validated while others were still untried, and
\* the list held a duplicate that was skipped.
C4_Witness ==
    /\ fix_pc = "done"
    /\ fix_result # None
    /\ Len(fix_calls) = 2
    /\ Len(C4_Expected) > 2
    /\ Len(C4_Expected) < Len(fix_candidates)

----------------------------------------------------------------------------
(* Claims about the Response Extractor (checked under SpecExt) *)

\* The candidates built from the item at position i of data.
CandidatesOf(i) == {k \in 1..Len(ext_candidates) : ext_candidates[k].item = i}

\* The items that passed the company-name and ex-date checks.
PassedChecks == {i \in 1..Len(ext_log) : ext_log[i].check \in {"nosymbol", "lookup"}}

Unresolved == {i \in PassedChecks : ext_log[i].lookup = "unresolved"}

C7_MonthLen(y, m) ==
    CASE m = 2 -> IF y = 2024 THEN 29 ELSE 28
      [] m \in {4, 6, 9, 11} -> 30
      [] OTHER -> 31

C7_Window ==
    {d \in {2024, 2025} \X {2, 3} \X (1..31) : d[3] <= C7_MonthLen(d[1], d[2])}

C7_Year(y) == IF y = 2024 THEN <<"2","0","2","4">> ELSE <<"2","0","2","5">>

C7_TwoDigits(n) == <<DigitChar(n \div 10), DigitChar(n % 10)>>

\* The strings YYYY-MM-DD that denote the date d (one-digit months and days may
\* drop the zero, and a one-digit day may have a space for it).
C7_Spellings(d) ==
    LET months == {C7_TwoDigits(d[2])} \cup (IF d[2] < 10 THEN {<<DigitChar(d[2])>>} ELSE {})
        days == {C7_TwoDigits(d[3])}
                \cup (IF d[3] < 10 THEN {<<DigitChar(d[3])>>, <<" ", DigitChar(d[3])>>} ELSE {})
    IN  {C7_Year(d[1]) \o <<"-">> \o m \o <<"-">> \o dd : m \in months, dd \in days}

\* The spelling with both zeros.
C7_Canonical ==
    [d \in C7_Window |->
        C7_Year(d[1]) \o <<"-">> \o C7_TwoDigits(d[2]) \o <<"-">> \o C7_TwoDigits(d[3])]

C7_NextDay(d) ==
    IF d[3] < C7_MonthLen(d[1], d[2]) THEN <<d[1], d[2], d[3] + 1>>
    ELSE IF d[2] < 12 THEN <<d[1], d[2] + 1, 1>>
    ELSE <<d[1] + 1, 1, 1>>

C7_Later(a, b) ==
    \/ a[1] > b[1]
    \/ a[1] = b[1] /\ a[2] > b[2]
    \/ a[1] = b[1] /\ a[2] = b[2] /\ a[3] > b[3]

\* The number of days from a to b, a not later than b: day by day within a month,
\* and from a to the first of the next month otherwise.
RECURSIVE C7_DaysFrom(_, _)
C7_DaysFrom(a, b) ==
    IF a = b THEN 0
    ELSE IF a[1] = b[1] /\ a[2] = b[2] THEN 1 + C7_DaysFrom(C7_NextDay(a), b)
    ELSE LET last == <<a[1], a[2], C7_MonthLen(a[1], a[2])>>
         IN  (last[3] - a[3]) + 1 + C7_DaysFrom(C7_NextDay(last), b)

C7_CandidateOk(c) ==
    /\ c.item \in 1..Len(ext_data)
    /\ Truthy(c.company)
    /\ LET e == ext_data[c.item].ex_date
       IN  /\ e.t = "str"
           /\ \E d \in C7_Window :
                 /\ c.ex_date = C7_Canonical[d]
                 /\ e.s \in C7_Spellings(d)
                 /\ C7_Later(d, today)
                 /\ c.days_to_ex_date = C7_DaysFrom(today, d)
                 /\ c.days_to_ex_date >= 1

\* C7: every candidate returned has a non-empty company name and comes
\* from an item whose ex_date is a string spelling a calendar date YYYY-MM-DD that
\* is strictly later than today, and its days_to_ex_date is the number of days from
\* today to that date, at least 1 (so an item whose ex_date is missing, not a date,
\* today or in the past yields no candidate).
C7_DateRule ==
    ext_pc = "done" => \A k \in 1..Len(ext_result) : C7_CandidateOk(ext_result[k])

\* C7's case: a candidate dated tomorrow was returned, and an item dated today or
\* earlier was passed over.
C7_Witness ==
    /\ ext_pc = "done"
    /\ \E k \in 1..Len(ext_result) : ext_result[k].days_to_ex_date = 1
    /\ \E i \in 1..Len(ext_log) : ext_log[i].check = "notfuture"

\* C8: no exception propagates out of the extractor, whatever the text and the
\* types of the fields.
C8_NeverRaises == ext_pc # "raised"

\* The position of the "]" that closes the bracket opened before p (depth brackets
\* are open at p), or 0.
RECURSIVE C9_Close(_, _, _)
C9_Close(t, p, depth) ==
    IF p > Len(t) THEN 0
    ELSE IF t[p] = "[" THEN C9_Close(t, p + 1, depth + 1)
    ELSE IF t[p] = "]" THEN (IF depth = 1 THEN p ELSE C9_Close(t, p + 1, depth - 1))
    ELSE C9_Close(t, p + 1, depth)

\* The first balanced [...] span of the text (NoSpan when there is none).
C9_FirstBalancedSpan(t) ==
    LET starts == {i \in 1..Len(t) : t[i] = "[" /\ C9_Close(t, i + 1, 1) # 0}
    IN  IF starts = {} THEN NoSpan
        ELSE LET first == CHOOSE i \in starts : \A j \in starts : i <= j
             IN  SubSeq(t, first, C9_Close(t, first + 1, 1))

\* C9: when the first balanced [...] span of the text is a valid JSON array, that
\* span is what the extractor parsed, and the candidates come from its elements.
C9_ParsesFirstBalancedSpan ==
    (ext_pc # "start" /\ JsonLoads(C9_FirstBalancedSpan(text)).ok)
        => /\ ext_span = C9_FirstBalancedSpan(text)
           /\ ext_kinds = JsonLoads(C9_FirstBalancedSpan(text)).elems

----------------------------------------------------------------------------
(* Claims about the scanners                                               *)

C1_Failed == SelectSeq(scan_log, LAMBDA e : e.data.status # "success")

C1_Succeeded == SelectSeq(scan_log, LAMBDA e : e.data.status = "success")

C10_IsCandidate(pos) == \E k \in 1..Len(scan_candidates) : scan_candidates[k].pos = pos

C10_DatedWithin3Days(articles) ==
    \E k \in 1..Len(articles) :
        articles[k].has_days /\ 0 <= articles[k].days_ago /\ articles[k].days_ago <= 3

\* C10: in scan_announcement_momentum a fetched symbol with at least 6 closes and
\* 21 volumes whose 5-day move exceeds 2% on a volume ratio above 1.0 is a candidate
\* if and only if one of its articles has 0 <= days_ago <= 3.
C10_CandidateIffRecentNews ==
    scanner = "momentum" =>
        \A i \in 1..Len(scan_log) :
            LET e == scan_log[i]
            IN  ( /\ e.data.status = "success"
                  /\ Len(e.data.closes) >= 6
                  /\ Len(e.data.volumes) >= 21
                  /\ HasMomentum(e.data.closes, e.data.volumes) )
                => (C10_IsCandidate(e.pos) <=> C10_DatedWithin3Days(e.articles))

----------------------------------------------------------------------------
(* Claims about the dividend scan                                          *)

C5_Desperate ==
    {k \in 1..Len(div_log) : /\ div_log[k].health.status = "success"
                             /\ div_log[k].health.dividend_health = "DESPERATE"}

C5_Items(seq) == {seq[k].item : k \in 1..Len(seq)}

\* C5: a candidate whose health verdict is DESPERATE is never in opportunities, nor
\* in the returned top_opportunities; it is in skipped, with a skip reason.
C5_DesperateOnlySkipped ==
    \A k \in C5_Desperate :
        /\ div_log[k].item \notin C5_Items(opportunities)
        /\ div_log[k].item \notin C5_Items(div_result.top_opportunities)
        /\ \E j \in 1..Len(skipped) :
              /\ skipped[j].item = div_log[k].item
              /\ skipped[j].skip_reason = "DESPERATE dividend"

\* A scan has returned with one DESPERATE candidate and one opportunity.
C5_Witness ==
    /\ div_pc = "done"
    /\ C5_Desperate # {}
    /\ div_result.top_opportunities # <<>>

\* The yield the fundamentals collaborator gave for an opportunity.
C6_Yield(opp) ==
    LET k == CHOOSE j \in 1..Len(div_log) : div_log[j].item = opp.item
    IN  div_log[k].div_yield

C6_Ranking == div_result.top_opportunities

\* C6 as stated: of two opportunities with the same health_score and the same
\* yield, the one in an uptrend is placed before the one that is not.
C6_UptrendRanksAbove ==
    div_pc = "done" =>
        \A a, b \in 1..Len(C6_Ranking) :
            ( /\ C6_Ranking[a].health_score = C6_Ranking[b].health_score
              /\ C6_Yield(C6_Ranking[a]) = C6_Yield(C6_Ranking[b])
              /\ C6_Ranking[a].uptrend
              /\ ~C6_Ranking[b].uptrend )
            => a < b

\* C6 amended: of two opportunities with the same health_score, the same yield, the
\* same above_50dma and ex-dates on the same side of five days, the one in an
\* uptrend is placed before the one that is not.
C6_UptrendRanksAboveOtherwiseEqual ==
    div_pc = "done" =>
        \A a, b \in 1..Len(C6_Ranking) :
            ( /\ C6_Ranking[a].health_score = C6_Ranking[b].health_score
              /\ C6_Yield(C6_Ranking[a]) = C6_Yield(C6_Ranking[b])
              /\ C6_Ranking[a].above_50dma = C6_Ranking[b].above_50dma
              /\ (C6_Ranking[a].days_to_ex >= 5) = (C6_Ranking[b].days_to_ex >= 5)
              /\ C6_Ranking[a].uptrend
              /\ ~C6_Ranking[b].uptrend )
            => a < b

\* A scan has returned in which the sort moved an uptrend opportunity ahead of an
\* otherwise equal one that was analysed before it.
C6_Witness ==
    /\ div_pc = "done"
    /\ \E a, b \in 1..Len(C6_Ranking) :
          /\ a < b
          /\ C6_Ranking[a].item > C6_Ranking[b].item
          /\ C6_Ranking[a].health_score = C6_Ranking[b].health_score
          /\ C6_Yield(C6_Ranking[a]) = C6_Yield(C6_Ranking[b])
          /\ C6_Ranking[a].above_50dma = C6_Ranking[b].above_50dma
          /\ (C6_Ranking[a].days_to_ex >= 5) = (C6_Ranking[b].days_to_ex >= 5)
          /\ C6_Ranking[a].uptrend
          /\ ~C6_Ranking[b].uptrend

\* The candidates one of whose collaborators failed: health, price fetch or
\* indicator metrics gave no success, or fundamentals gave no yield.
C11_Failures ==
    {k \in 1..Len(div_log) :
        \/ div_log[k].health.status = "error"
        \/ div_log[k].data.status = "error"
        \/ div_log[k].metrics.status = "error"
        \/ ("fundamentals" \in {div_log[k].calls[j] : j \in 1..Len(div_log[k].calls)}
               /\ div_log[k].div_yield = NoYield)}

----------------------------------------------------------------------------
(* Claims about validation failures (checked under SpecExt)                *)

C12_Failed(call) == call.outcome \in {"raise", "noprice"}

\* C12: a validation in which the quote source raised or gave no price counts as
\* "not valid": the resolver never returns that symbol and goes on, to a later
\* call, to the rest of its list, or to None once the list is exhausted; and the
\* extractor raises only on an item it could not read, never on a validation.
C12_ValidationFailuresSwallowed ==
    /\ fix_pc \in {"loop", "done"} =>
          \A k \in 1..Len(fix_calls) :
              C12_Failed(fix_calls[k]) =>
                  /\ fix_result # fix_calls[k].sym
                  /\ \/ k < Len(fix_calls)
                     \/ fix_pc = "loop"
                     \/ fix_result = None /\ Len(fix_calls) = Len(C4_Expected)
    /\ ext_pc = "raised" =>
          /\ ext_log[Len(ext_log)].check = "raise"
          /\ fix_pc = "idle"
    /\ ext_pc = "fixing" => fix_pc \in {"start", "loop", "done"}

\* The quote source raised on the resolver's first candidate, and the resolver
\* went on to its second, which validated, for an item of the extractor.
C12_Witness ==
    /\ ext_pc = "fixing"
    /\ fix_pc = "done"
    /\ Len(fix_calls) = 2
    /\ fix_calls[1].outcome = "raise"
    /\ fix_result = fix_calls[2].sym

----------------------------------------------------------------------------
(* Claims about the dividend ranking (checked under SpecDiv)               *)

\* The composite score of a returned opportunity, from its returned fields, in
\* hundredths of a point.
C13_Score(opp) ==
    100 * opp.health_score
        + (IF opp.dividend_yield_pct # NoYield /\ opp.dividend_yield_pct > 0
           THEN 10 * opp.dividend_yield_pct ELSE 0)
        + (IF opp.uptrend THEN 1500 ELSE 0)
        + (IF opp.above_50dma THEN 1000 ELSE 0)
        + (IF opp.days_to_ex >= 5 THEN 1000 ELSE 0)

C13_TieWitness ==
    /\ div_pc = "done"
    /\ LET ranking == div_result.top_opportunities
       IN  \E a, b \in 1..Len(ranking) :
              /\ a < b
              /\ C13_Score(ranking[a]) = C13_Score(ranking[b])
              /\ C6_Yield(ranking[a]) < C6_Yield(ranking[b])

----------------------------------------------------------------------------
(* Claims about the extractor's order (checked under SpecExt)              *)

\* C14: the list the extractor returns holds the candidates it built, in ascending
\* order of days_to_ex_date, those of equal days_to_ex_date in the order of their
\* items in the array.
C14_StableAscendingDays ==
    ext_pc = "done" =>
        /\ Len(ext_result) = Len(ext_candidates)
        /\ \A k \in 1..Len(ext_candidates) :
              \E j \in 1..Len(ext_result) : ext_result[j] = ext_candidates[k]
        /\ \A a, b \in 1..Len(ext_result) :
              a < b =>
                 /\ ext_result[a].days_to_ex_date <= ext_result[b].days_to_ex_date
                 /\ ext_result[a].days_to_ex_date = ext_result[b].days_to_ex_date
                       => ext_result[a].item < ext_result[b].item

\* The extractor returned a later item of the array ahead of an earlier one, its
\* ex-date being nearer.
C14_Witness ==
    /\ ext_pc = "done"
    /\ \E a, b \in 1..Len(ext_result) :
          /\ a < b
          /\ ext_result[a].item > ext_result[b].item
          /\ ext_result[a].days_to_ex_date < ext_result[b].days_to_ex_date

\* The extractor returned two candidates of the same ex-date.
C14_TieWitness ==
    /\ ext_pc = "done"
    /\ \E a, b \in 1..Len(ext_result) :
          /\ a < b
          /\ ext_result[a].days_to_ex_date = ext_result[b].days_to_ex_date

----------------------------------------------------------------------------
(* Claims about the order of a scan (checked under SpecScan)               *)

\* The returned candidate of the symbol at position pos, if it has one.
C15_Of(pos) ==
    SelectSeq(scan_result.candidates, LAMBDA c : c.pos = pos)

\* The candidates as the loop appends them when it takes the symbols in the
\* order given, the collaborators answering each symbol as they did.
RECURSIVE C15_Appended(_, _)
C15_Appended(order, k) ==
    IF k = 0 THEN <<>> ELSE C15_Appended(order, k - 1) \o C15_Of(order[k])

\* The list the scanner returns for that order: its sort, applied to that list.
C15_ReturnedIn(order) ==
    LET appended == C15_Appended(order, Len(order))
    IN  CASE scanner = "breakout" ->
                SortDescending(appended,
                               [k \in 1..Len(appended) |-> appended[k].volume_ratio])
          [] scanner = "momentum" ->
                SortDescending(appended,
                               [k \in 1..Len(appended) |-> Abs(appended[k].price_change_5d)])
          [] scanner = "oversold" ->
                SortAscending(appended, [k \in 1..Len(appended) |-> appended[k].rsi])

\* C15 as stated: whatever the order in which the symbols are taken, the scanner
\* returns the same candidate list, in the same order.
C15_OrderIndependent ==
    scan_pc = "done" =>
        \A order \in Permutations(1..Len(symbols)) :
            C15_ReturnedIn(order) = scan_result.candidates

\* The sort key of a candidate, smaller first.
C15_Key(c) ==
    CASE scanner = "breakout" -> 0 - c.volume_ratio
      [] scanner = "momentum" -> 0 - Abs(c.price_change_5d)
      [] scanner = "oversold" -> c.rsi

\* C15 amended: the returned candidates are in the order of the sort key, and two
\* of equal key are in the order in which their symbols were taken; so the order
\* of the symbols shows in the result between candidates of equal key, and only
\* there.
C15_OrderOnlyBreaksTies ==
    scan_pc = "done" =>
        LET returned == scan_result.candidates
        IN  /\ \A a, b \in 1..Len(returned) :
                  a < b =>
                     /\ C15_Key(returned[a]) <= C15_Key(returned[b])
                     /\ C15_Key(returned[a]) = C15_Key(returned[b])
                           => returned[a].pos < returned[b].pos
            /\ \A order \in Permutations(1..Len(symbols)) :
                  LET other == C15_ReturnedIn(order)
                  IN  /\ Len(other) = Len(returned)
                      /\ \A k \in 1..Len(other) :
                            /\ C15_Key(other[k]) = C15_Key(returned[k])
                            /\ \E j \in 1..Len(returned) : returned[j] = other[k]
                      /\ (\A a, b \in 1..Len(returned) :
                             a # b => C15_Key(returned[a]) # C15_Key(returned[b]))
                            => other = returned

\* A scan returned a symbol taken later ahead of one taken earlier, by its key.
C15_Witness ==
    /\ scan_pc = "done"
    /\ \E a, b \in 1..Len(scan_result.candidates) :
          /\ a < b
          /\ scan_result.candidates[a].pos > scan_result.candidates[b].pos
          /\ C15_Key(scan_result.candidates[a]) < C15_Key(scan_result.candidates[b])

----------------------------------------------------------------------------
(* Claims about the suggested stops (checked under SpecStop)               *)

\* stop is num / den rounded to the paisa.
C16_Nearest(stop, num, den) == 2 * Abs(den * stop - num) <= den

\* The dividend scan and the analysis: entry is the last close and stop is
\* entry - 1.5 * ATR.
C16_TrendStops ==
    /\ \A k \in 1..Len(opportunities) :
          LET o == opportunities[k]
          IN  /\ o.suggested_entry = o.current_price
              /\ C16_Nearest(o.suggested_stop, 2 * o.suggested_entry - 3 * o.atr, 2)
    /\ (ana_pc = "done" /\ analysis.has_levels) =>
          /\ analysis.suggested_entry = analysis.current_price
          /\ C16_Nearest(analysis.suggested_stop,
                         2 * analysis.suggested_entry - 3 * analysis.atr, 2)

\* C16 as stated: every suggested stop is entry - k * ATR, with k = 0.8 for the
\* oversold scanner and k = 1.5 for the dividend scan and the analysis, whatever
\* the close and the ATR.
C16_StopIsEntryMinusKAtr ==
    /\ C16_TrendStops
    /\ scanner = "oversold" =>
          \A k \in 1..Len(scan_candidates) :
              LET c == scan_candidates[k]
              IN  C16_Nearest(c.suggested_stop, 5 * c.close - 4 * c.atr, 5)

\* C16 amended: the dividend scan and the analysis suggest entry - 1.5 * ATR, which
\* can be zero or negative; the oversold scanner suggests entry - 0.8 * ATR where
\* that is at least 0.01, and 0.01 where it is less.
C16_StopIsEntryMinusKAtrFloored ==
    /\ C16_TrendStops
    /\ scanner = "oversold" =>
          \A k \in 1..Len(scan_candidates) :
              LET c == scan_candidates[k]
              IN  IF 5 * c.close - 4 * c.atr >= 5
                  THEN C16_Nearest(c.suggested_stop, 5 * c.close - 4 * c.atr, 5)
                  ELSE c.suggested_stop = 1

\* An oversold candidate whose ATR exceeds its close has the stop 0.01.
C16_Witness ==
    /\ scan_pc = "done"
    /\ scanner = "oversold"
    /\ \E k \in 1..Len(scan_result.candidates) :
          LET c == scan_result.candidates[k]
          IN  c.atr > c.close /\ c.suggested_stop = 1

\* An analysis whose ATR exceeds its close suggests a negative stop.
C16_NegativeStopWitness ==
    /\ ana_pc = "done"
    /\ analysis.has_levels
    /\ analysis.suggested_stop < 0

----------------------------------------------------------------------------
(* Claims about the oversold scanner (checked under SpecScan)              *)

\* What the claim requires of a fetched symbol, on what its collaborators answered.
C17_Qualifies(e) ==
    /\ Len(e.data.closes) >= 60
    /\ e.rsi # NoRsi
    /\ e.rsi <= rsi_max
    /\ e.metrics.status = "success"
    /\ require_below_50dma => e.data.closes[Len(e.data.closes)] < e.metrics.dma_50

\* C17: a fetched symbol is a candidate of the oversold scanner exactly when it has
\* 60 closes, an RSI of at most rsi_max, moving-average metrics, and, if
\* require_below_50dma, a last close strictly below the 50-day average; whether a
\* candidate or not, it is in scanned and not in errors.
C17_OversoldMembership ==
    scanner = "oversold" =>
        \A i \in 1..Len(scan_log) :
            LET e == scan_log[i]
            IN  e.data.status = "success" =>
                   /\ C10_IsCandidate(e.pos) <=> C17_Qualifies(e)
                   /\ \E k \in 1..Len(scanned) : scanned[k] = symbols[e.pos]
                   /\ \A k \in 1..Len(errors) : errors[k].symbol # symbols[e.pos]
                   /\ scan_pc = "done" =>
                         (\E k \in 1..Len(scan_result.candidates) :
                              scan_result.candidates[k].pos = e.pos) <=> C17_Qualifies(e)

\* With require_below_50dma false the scan returned a candidate that is not below
\* its average, and counted a symbol that it disqualified.
C17_Witness ==
    /\ scan_pc = "done"
    /\ scanner = "oversold"
    /\ ~require_below_50dma
    /\ \E k \in 1..Len(scan_result.candidates) : ~scan_result.candidates[k].below_50dma
    /\ \E i \in 1..Len(scan_log) :
          /\ scan_log[i].data.status = "success"
          /\ ~C10_IsCandidate(scan_log[i].pos)
    /\ scan_result.stocks_scanned = Len(symbols)
    /\ scan_result.scan_errors.none

----------------------------------------------------------------------------
(* Claims about the dividend scan's bookkeeping (checked under SpecDiv)    *)

\* How many elements of seq are of the item.
C18_Count(seq, item) == Cardinality({k \in 1..Len(seq) : seq[k].item = item})

\* The positions, among the discovered candidates, of those with enough days left.
C18_Analysed ==
    {j \in 1..Len(search_result.candidates) :
        search_result.candidates[j].days_to_ex_date >= min_days_to_ex}

\* C18: when the scan has gone through the candidates, those analysed are exactly
\* the discovered ones with days_to_ex_date >= min_days_to_ex; each is once in
\* opportunities or once in skipped, never in both; one without a symbol is in
\* skipped; and opportunities_count + skipped_count = analyzed <= dividends_discovered.
C18_Partition ==
    (div_pc = "done" /\ div_result.keys = "full") =>
        /\ Len(filtered) = Cardinality(C18_Analysed)
        /\ \A i \in 1..Len(filtered) :
              /\ filtered[i].days_to_ex_date >= min_days_to_ex
              /\ \E j \in C18_Analysed : search_result.candidates[j] = filtered[i]
              /\ C18_Count(opportunities, i) + C18_Count(skipped, i) = 1
              /\ filtered[i].symbol = None => C18_Count(skipped, i) = 1
        /\ \A k \in 1..Len(opportunities) : opportunities[k].item \in 1..Len(filtered)
        /\ \A k \in 1..Len(skipped) : skipped[k].item \in 1..Len(filtered)
        /\ div_result.opportunities_count = Len(opportunities)
        /\ div_result.skipped_count = Len(skipped)
        /\ div_result.opportunities_count + div_result.skipped_count = div_result.analyzed
        /\ div_result.analyzed = Len(filtered)
        /\ div_result.analyzed <= div_result.dividends_discovered
        /\ div_result.dividends_discovered = Len(search_result.candidates)

\* A scan has returned that left out a candidate too near its ex-date and skipped
\* one without a symbol.
C18_Witness ==
    /\ div_pc = "done"
    /\ div_result.keys = "full"
    /\ div_result.analyzed < div_result.dividends_discovered
    /\ div_result.analyzed >= 1
    /\ \E i \in 1..Len(filtered) : filtered[i].symbol = None

\* The positions of a call in the calls made for one candidate.
C19_At(calls, name) == {k \in 1..Len(calls) : calls[k] = name}

C19_Before(calls, first, then) ==
    \A k \in C19_At(calls, then) : \E j \in C19_At(calls, first) : j < k

\* C19: for each candidate the first call is the health assessment; the price
\* series is fetched only after the health assessment succeeded with a verdict
\* other than DESPERATE; the fundamentals are requested only after the fetch
\* succeeded and the metrics computed; no collaborator is called twice; and for a
\* candidate without a symbol none is called.
C19_CallOrder ==
    \A i \in 1..Len(div_log) :
        LET e == div_log[i]
            calls == e.calls
        IN  /\ calls # <<>> => calls[1] = "health"
            /\ \A name \in {"health", "fetch", "metrics", "atr", "fundamentals"} :
                  Cardinality(C19_At(calls, name)) <= 1
            /\ C19_At(calls, "fetch") # {} =>
                  /\ e.health.status = "success"
                  /\ e.health.dividend_health # "DESPERATE"
                  /\ C19_Before(calls, "health", "fetch")
            /\ C19_At(calls, "fundamentals") # {} =>
                  /\ e.data.status = "success"
                  /\ e.metrics.status = "success"
                  /\ C19_Before(calls, "fetch", "fundamentals")
                  /\ C19_Before(calls, "metrics", "fundamentals")
            /\ filtered[e.item].symbol = None => calls = <<>>

\* A scan has gone through a candidate without a symbol, calling nothing, and one
\* for which every collaborator was called.
C19_Witness ==
    /\ div_pc = "done"
    /\ \E i \in 1..Len(div_log) :
          filtered[div_log[i].item].symbol = None /\ div_log[i].calls = <<>>
    /\ \E i \in 1..Len(div_log) : C19_At(div_log[i].calls, "fundamentals") # {}

====
